---- MODULE Spec2Model ----
(***************************************************************************)
(* Five singleton implementations (creational/singleton): Singleton1       *)
(* (unsynchronised lazy, static mut Option<Box>), Singleton2 (lazy_static  *)
(* Mutex), Singleton3 (OnceLock), Singleton4 (eager static) and Singleton5 *)
(* (std::sync::Once plus a raw pointer).  Client threads call the public   *)
(* operations; every operation is split at the points where another        *)
(* thread can be scheduled.  The five components share no state, so a      *)
(* behaviour exercises the variants named by focus.                        *)
(***************************************************************************)
EXTENDS Naturals, Sequences, FiniteSets, TLC

\* Number of client threads.
NumThreads == 2

Threads == 1..NumThreads

Variants == {"A", "B", "C", "D", "E"}

\* The sets of variants one behaviour exercises.
Scenarios == {{"A"}, {"B"}, {"C"}, {"D"}, {"E"}}

\* No value: a get_data() result not yet produced, an uninitialised slot.
NoVal == "<none>"

\* The outcome of a data race on the String field: a torn or dangling read.
Garbage == "<garbage>"

\* format!("Thread {} data", i) of tests::test_thread_safety; threads are
\* numbered from 1 here and from 0 in the test.
ThreadData(t) == "Thread " \o ToString(t - 1) \o " data"

\* The arguments a thread passes to set_data / init.
Args(t) == {"Updated data", ThreadData(t)}

\* The value each variant's record is constructed with.
Default1 == "Singleton1 instance"
Default2 == "Singleton2 instance"
Default3 == "Singleton3 instance"
Default4 == ""
Default5 == "Singleton5 instance"

Default(v) ==
  CASE v = "A" -> Default1
    [] v = "B" -> Default2
    [] v = "C" -> Default3
    [] v = "D" -> Default4
    [] v = "E" -> Default5

\* Heap cells available to Box::new: every thread constructs a record at most
\* once (after its own store the slot is never absent again).
BoxIds == 1..NumThreads

\* The address of a static item (INSTANCE2, INSTANCE3, INSTANCE4).
StaticAddr == 1

\* The null pointer / no reference.
Null == 0

VARIABLES
  focus,          \* the variants this behaviour exercises
  pc,             \* pc[t]: where thread t is inside a call ("idle" between calls)
  instance,       \* instance[t][v]: the reference / guard t holds from v's get_instance()
  prev_instance,  \* prev_instance[t][v]: the result of t's previous get_instance() on v
  arg,            \* arg[t]: the argument of t's running set_data()
  got,            \* got[t]: result of t's last get_data() since its last set_data()
  lastSet,        \* lastSet[t]: argument of t's most recent completed set_data()
  wrote,          \* wrote[t]: t completed a set_data() through the result of its latest get_instance()
  started,        \* the threads that have called any operation
  lastWriter,     \* lastWriter[v]: the thread whose set_data() on v stored last
  INSTANCE1,      \* static mut INSTANCE1: Null (None) or the box (Some)
  heap1,          \* Singleton1 boxes: state and data
  newbox,         \* newbox[t]: the box t's Box::new produced, not yet stored
  inits1,         \* times a Singleton1 record has been constructed
  lazy2,          \* lazy_static's Once of INSTANCE2
  data2,          \* INSTANCE2's data
  locked2,        \* the Mutex is locked
  poisoned2,      \* the Mutex is poisoned
  inits2,         \* times INSTANCE2's initialiser has run
  lastAcq2,       \* the thread that acquired the guard last
  once3,          \* OnceLock state of INSTANCE3
  data3,          \* INSTANCE3's slot
  inits3,         \* times INSTANCE3's initialiser closure has run
  data4,          \* INSTANCE4.data
  ONCE,           \* static ONCE
  INSTANCE5,      \* static mut INSTANCE5: Null or the box
  heap5,          \* Singleton5 boxes
  inits5,         \* times the call_once closure has run
  dropped5        \* times Drop for Singleton5 has run

vars == <<focus, pc, instance, prev_instance, arg, got, lastSet, wrote, started,
          lastWriter, INSTANCE1, heap1, newbox, inits1,
          lazy2, data2, locked2, poisoned2, inits2, lastAcq2,
          once3, data3, inits3, data4,
          ONCE, INSTANCE5, heap5, inits5, dropped5>>

common == <<focus, lastWriter>>
vars1 == <<INSTANCE1, heap1, newbox, inits1>>
vars2 == <<lazy2, data2, locked2, poisoned2, inits2, lastAcq2>>
vars3 == <<once3, data3, inits3>>
vars4 == <<data4>>
vars5 == <<ONCE, INSTANCE5, heap5, inits5, dropped5>>
locals == <<arg, got, lastSet, wrote>>

FreeCell == [st |-> "unalloc", data |-> NoVal]

\* The statics and the threads before any call.
InitState ==
  /\ pc = [t \in Threads |-> "idle"]
  /\ instance = [t \in Threads |-> [v \in Variants |-> Null]]
  /\ prev_instance = [t \in Threads |-> [v \in Variants |-> Null]]
  /\ arg = [t \in Threads |-> NoVal]
  /\ got = [t \in Threads |-> NoVal]
  /\ lastSet = [t \in Threads |-> NoVal]
  /\ wrote = [t \in Threads |-> FALSE]
  /\ started = {}
  /\ lastWriter = [v \in Variants |-> Null]
  /\ INSTANCE1 = Null
  /\ heap1 = [b \in BoxIds |-> FreeCell]
  /\ newbox = [t \in Threads |-> Null]
  /\ inits1 = 0
  /\ lazy2 = "incomplete"
  /\ data2 = NoVal
  /\ locked2 = FALSE
  /\ poisoned2 = FALSE
  /\ inits2 = 0
  /\ lastAcq2 = Null
  /\ once3 = "incomplete"
  /\ data3 = NoVal
  /\ inits3 = 0
  /\ data4 = Default4
  /\ ONCE = "incomplete"
  /\ INSTANCE5 = Null
  /\ heap5 = [b \in BoxIds |-> FreeCell]
  /\ inits5 = 0
  /\ dropped5 = 0

Init ==
  /\ focus \in Scenarios
  /\ InitState

\* A call of a public operation of variant v by an idle thread t.
Call(t, v) ==
  /\ v \in focus
  /\ pc[t] = "idle"
  /\ started' = started \cup {t}

\* get_instance() of variant v returns r to thread t.
Return(t, v, r) ==
  /\ instance' = [instance EXCEPT ![t][v] = r]
  /\ prev_instance' = [prev_instance EXCEPT ![t][v] =
                          IF instance[t][v] # Null THEN instance[t][v] ELSE @]
  /\ wrote' = [wrote EXCEPT ![t] = FALSE]
  /\ got' = [got EXCEPT ![t] = NoVal]
  /\ pc' = [pc EXCEPT ![t] = "idle"]

\* The threads other than t that are in the middle of writing the String
\* field of record r of variant v (pc "set", between dropping the old String
\* and storing the new one).
Writers(t, v, r) ==
  {u \in Threads \ {t} : pc[u] = "set" \o v /\ instance[u][v] = r}

\* self.data = data.to_string(): the value the field holds afterwards.  With
\* another thread writing the same field at the same time the store is a data
\* race and may leave a torn String.
WriteOutcomes(t, v, r) ==
  IF Writers(t, v, r) = {} THEN {arg[t]} ELSE {arg[t], Garbage}

\* &self.data: the value a read produces when the field holds stored.  A read
\* that races with a write, or goes through a dangling reference, may see the
\* stored value, a racing writer's value or a torn String.
ReadOutcomes(t, v, r, stored, dangling) ==
  IF Writers(t, v, r) = {} /\ ~dangling
    THEN {stored}
    ELSE {stored, Garbage} \cup {arg[u] : u \in Writers(t, v, r)}

\* A data race or a use of freed memory is undefined behaviour: besides a
\* wrong value, the String's buffer may be freed twice or read through a torn
\* pointer, and the process aborts.
Racy(t, v, r, dangling) == Writers(t, v, r) # {} \/ dangling

ProcessAbort ==
  /\ pc' = [u \in Threads |-> "aborted"]
  /\ UNCHANGED <<common, instance, prev_instance, locals,
                 vars1, vars2, vars3, vars4, vars5>>

(***************************************************************************)
(* Singleton1: static mut Option<Box<Singleton1>>, no synchronisation      *)
(***************************************************************************)

\* S1_IsNone with the check lost: every call constructs.
S1_IsNone_Always(t) ==
  /\ Call(t, "A")
  /\ pc' = [pc EXCEPT ![t] = "s1_new"]
  /\ UNCHANGED <<common, instance, prev_instance, locals,
                 vars1, vars2, vars3, vars4, vars5>>

\* if INSTANCE1.is_none()
S1_IsNone(t) ==
  /\ Call(t, "A")
  /\ pc' = [pc EXCEPT ![t] = IF INSTANCE1 = Null THEN "s1_new" ELSE "s1_ret"]
  /\ UNCHANGED <<common, instance, prev_instance, locals,
                 vars1, vars2, vars3, vars4, vars5>>

\* Box::new(Singleton1 { data: "Singleton1 instance".to_string() }): the
\* allocator hands out any cell that is not live (a freed one may be reused).
S1_BoxNew(t) ==
  /\ pc[t] = "s1_new"
  /\ \E b \in BoxIds :
       /\ heap1[b].st # "live"
       /\ heap1' = [heap1 EXCEPT ![b] = [st |-> "live", data |-> Default1]]
       /\ newbox' = [newbox EXCEPT ![t] = b]
  /\ inits1' = inits1 + 1
  /\ pc' = [pc EXCEPT ![t] = "s1_drop"]
  /\ UNCHANGED <<common, instance, prev_instance, locals, started,
                 INSTANCE1, vars2, vars3, vars4, vars5>>

\* S1_DropOld dropping the new box instead of the slot's old value.
S1_DropOld_DropsNew(t) ==
  /\ pc[t] = "s1_drop"
  /\ heap1' = [heap1 EXCEPT ![newbox[t]].st = "freed"]
  /\ pc' = [pc EXCEPT ![t] = "s1_store"]
  /\ UNCHANGED <<common, instance, prev_instance, locals, started,
                 INSTANCE1, newbox, inits1, vars2, vars3, vars4, vars5>>

\* INSTANCE1 = Some(..), first half: the value the slot holds is dropped (a
\* box another thread stored since the is_none() check is freed).
S1_DropOld(t) ==
  /\ pc[t] = "s1_drop"
  /\ heap1' = IF INSTANCE1 = Null THEN heap1
              ELSE [heap1 EXCEPT ![INSTANCE1].st = "freed"]
  /\ pc' = [pc EXCEPT ![t] = "s1_store"]
  /\ UNCHANGED <<common, instance, prev_instance, locals, started,
                 INSTANCE1, newbox, inits1, vars2, vars3, vars4, vars5>>

\* INSTANCE1 = Some(..), second half: the new box is written to the slot.
S1_Store(t) ==
  /\ pc[t] = "s1_store"
  /\ INSTANCE1' = newbox[t]
  /\ newbox' = [newbox EXCEPT ![t] = Null]
  /\ pc' = [pc EXCEPT ![t] = "s1_ret"]
  /\ UNCHANGED <<common, instance, prev_instance, locals, started,
                 heap1, inits1, vars2, vars3, vars4, vars5>>

\* INSTANCE1.as_mut().unwrap()
S1_AsMut(t) ==
  /\ pc[t] = "s1_ret"
  /\ Return(t, "A", INSTANCE1)
  /\ UNCHANGED <<common, arg, lastSet, started, vars1, vars2, vars3, vars4, vars5>>

\* Singleton1::set_data, entry: the old String is dropped.
S1_SetData(t) ==
  /\ Call(t, "A")
  /\ instance[t]["A"] # Null
  /\ \E s \in Args(t) : arg' = [arg EXCEPT ![t] = s]
  /\ got' = [got EXCEPT ![t] = NoVal]
  /\ pc' = [pc EXCEPT ![t] = "setA"]
  /\ UNCHANGED <<common, instance, prev_instance, lastSet, wrote,
                 vars1, vars2, vars3, vars4, vars5>>

\* Singleton1::set_data, the store to self.data (into freed memory when the
\* reference dangles).
S1_SetDataWrite(t) ==
  /\ pc[t] = "setA"
  /\ \/ /\ \E s \in WriteOutcomes(t, "A", instance[t]["A"]) :
             heap1' = [heap1 EXCEPT ![instance[t]["A"]].data = s]
        /\ lastSet' = [lastSet EXCEPT ![t] = arg[t]]
        /\ wrote' = [wrote EXCEPT ![t] = TRUE]
        /\ arg' = [arg EXCEPT ![t] = NoVal]
        /\ lastWriter' = [lastWriter EXCEPT !["A"] = t]
        /\ pc' = [pc EXCEPT ![t] = "idle"]
        /\ UNCHANGED <<focus, instance, prev_instance, got,
                       INSTANCE1, newbox, inits1, vars2, vars3, vars4, vars5>>
     \/ /\ Racy(t, "A", instance[t]["A"],
                 heap1[instance[t]["A"]].st = "freed")
        /\ ProcessAbort
  /\ UNCHANGED started

\* Singleton1::get_data
S1_GetData(t) ==
  /\ Call(t, "A")
  /\ instance[t]["A"] # Null
  /\ \/ /\ \E s \in ReadOutcomes(t, "A", instance[t]["A"],
                                 heap1[instance[t]["A"]].data,
                                 heap1[instance[t]["A"]].st = "freed") :
             got' = [got EXCEPT ![t] = s]
        /\ UNCHANGED <<common, pc, instance, prev_instance, arg, lastSet,
                       wrote, vars1, vars2, vars3, vars4, vars5>>
     \/ /\ Racy(t, "A", instance[t]["A"],
                 heap1[instance[t]["A"]].st = "freed")
        /\ ProcessAbort

Singleton1Next(t) ==
  \/ S1_IsNone(t)
  \/ S1_BoxNew(t)
  \/ S1_DropOld(t)
  \/ S1_Store(t)
  \/ S1_AsMut(t)
  \/ S1_SetData(t)
  \/ S1_SetDataWrite(t)
  \/ S1_GetData(t)

(***************************************************************************)
(* Singleton2: lazy_static! Mutex<Singleton2>                              *)
(***************************************************************************)

\* INSTANCE2 is dereferenced: lazy_static's fast path when the static is
\* already initialised, its Once otherwise.
S2_GetInstance(t) ==
  /\ Call(t, "B")
  /\ pc' = [pc EXCEPT ![t] = IF lazy2 = "complete" THEN "s2_lock" ELSE "s2_once"]
  /\ UNCHANGED <<common, instance, prev_instance, locals,
                 vars1, vars2, vars3, vars4, vars5>>

\* S2_Once without the wait: a caller that finds the initialiser running
\* passes on to the lock as if it had completed.
S2_Once_NoWait(t) ==
  /\ pc[t] = "s2_once"
  /\ \/ /\ lazy2 = "incomplete"
        /\ lazy2' = "running"
        /\ pc' = [pc EXCEPT ![t] = "s2_init"]
     \/ /\ lazy2 # "incomplete"
        /\ pc' = [pc EXCEPT ![t] = "s2_lock"]
        /\ UNCHANGED lazy2
  /\ UNCHANGED <<common, instance, prev_instance, locals, started,
                 data2, locked2, poisoned2, inits2, lastAcq2,
                 vars1, vars3, vars4, vars5>>

\* lazy_static's Once: the first caller initialises, callers arriving while
\* it runs block.
S2_Once(t) ==
  /\ pc[t] = "s2_once"
  /\ \/ /\ lazy2 = "incomplete"
        /\ lazy2' = "running"
        /\ pc' = [pc EXCEPT ![t] = "s2_init"]
     \/ /\ lazy2 = "complete"
        /\ pc' = [pc EXCEPT ![t] = "s2_lock"]
        /\ UNCHANGED lazy2
  /\ UNCHANGED <<common, instance, prev_instance, locals, started,
                 data2, locked2, poisoned2, inits2, lastAcq2,
                 vars1, vars3, vars4, vars5>>

\* S2_LazyInit constructing the record with an empty String.
S2_LazyInit_Empty(t) ==
  /\ pc[t] = "s2_init"
  /\ inits2' = inits2 + 1
  /\ data2' = ""
  /\ pc' = [pc EXCEPT ![t] = "s2_done"]
  /\ UNCHANGED <<common, instance, prev_instance, locals, started,
                 lazy2, locked2, poisoned2, lastAcq2,
                 vars1, vars3, vars4, vars5>>

\* Mutex::new(Singleton2 { data: "Singleton2 instance".to_string() })
S2_LazyInit(t) ==
  /\ pc[t] = "s2_init"
  /\ inits2' = inits2 + 1
  /\ data2' = Default2
  /\ pc' = [pc EXCEPT ![t] = "s2_done"]
  /\ UNCHANGED <<common, instance, prev_instance, locals, started,
                 lazy2, locked2, poisoned2, lastAcq2,
                 vars1, vars3, vars4, vars5>>

\* lazy_static's Once completes.
S2_LazyComplete(t) ==
  /\ pc[t] = "s2_done"
  /\ lazy2' = "complete"
  /\ pc' = [pc EXCEPT ![t] = "s2_lock"]
  /\ UNCHANGED <<common, instance, prev_instance, locals, started,
                 data2, locked2, poisoned2, inits2, lastAcq2,
                 vars1, vars3, vars4, vars5>>

\* S2_Lock without the wait for the mutex to be free.
S2_Lock_NoWait(t) ==
  /\ pc[t] = "s2_lock"
  /\ IF poisoned2
       THEN /\ pc' = [pc EXCEPT ![t] = "panicked"]
            /\ UNCHANGED <<instance, prev_instance, wrote, got, locked2, lastAcq2>>
       ELSE /\ locked2' = TRUE
            /\ lastAcq2' = t
            /\ Return(t, "B", StaticAddr)
  /\ UNCHANGED <<common, arg, lastSet, started, lazy2, data2, poisoned2, inits2,
                 vars1, vars3, vars4, vars5>>

\* INSTANCE2.lock().unwrap(): blocks while the mutex is locked (also when the
\* caller itself holds the guard).  On a poisoned mutex lock() returns Err,
\* unwrap() panics and the unwinding drops the guard inside the error.
S2_Lock(t) ==
  /\ pc[t] = "s2_lock"
  /\ ~locked2
  /\ IF poisoned2
       THEN /\ pc' = [pc EXCEPT ![t] = "panicked"]
            /\ UNCHANGED <<instance, prev_instance, wrote, got, locked2, lastAcq2>>
       ELSE /\ locked2' = TRUE
            /\ lastAcq2' = t
            /\ Return(t, "B", StaticAddr)
  /\ UNCHANGED <<common, arg, lastSet, started, lazy2, data2, poisoned2, inits2,
                 vars1, vars3, vars4, vars5>>

\* Singleton2::set_data through the guard, entry: the old String is dropped.
S2_SetData(t) ==
  /\ Call(t, "B")
  /\ instance[t]["B"] # Null
  /\ \E s \in Args(t) : arg' = [arg EXCEPT ![t] = s]
  /\ got' = [got EXCEPT ![t] = NoVal]
  /\ pc' = [pc EXCEPT ![t] = "setB"]
  /\ UNCHANGED <<common, instance, prev_instance, lastSet, wrote,
                 vars1, vars2, vars3, vars4, vars5>>

\* S2_SetDataWrite with the store lost (the new String is dropped).
S2_SetDataWrite_Lost(t) ==
  /\ pc[t] = "setB"
  /\ lastSet' = [lastSet EXCEPT ![t] = arg[t]]
  /\ wrote' = [wrote EXCEPT ![t] = TRUE]
  /\ arg' = [arg EXCEPT ![t] = NoVal]
  /\ lastWriter' = [lastWriter EXCEPT !["B"] = t]
  /\ pc' = [pc EXCEPT ![t] = "idle"]
  /\ UNCHANGED <<focus, instance, prev_instance, got, started, vars2,
                 vars1, vars3, vars4, vars5>>

\* Singleton2::set_data, the store to self.data.
S2_SetDataWrite(t) ==
  /\ pc[t] = "setB"
  /\ data2' \in WriteOutcomes(t, "B", instance[t]["B"])
  /\ lastSet' = [lastSet EXCEPT ![t] = arg[t]]
  /\ wrote' = [wrote EXCEPT ![t] = TRUE]
  /\ arg' = [arg EXCEPT ![t] = NoVal]
  /\ lastWriter' = [lastWriter EXCEPT !["B"] = t]
  /\ pc' = [pc EXCEPT ![t] = "idle"]
  /\ UNCHANGED <<focus, instance, prev_instance, got, started,
                 lazy2, locked2, poisoned2, inits2, lastAcq2,
                 vars1, vars3, vars4, vars5>>

\* Singleton2::get_data through the guard.
S2_GetData(t) ==
  /\ Call(t, "B")
  /\ instance[t]["B"] # Null
  /\ \E s \in ReadOutcomes(t, "B", instance[t]["B"], data2, FALSE) :
       got' = [got EXCEPT ![t] = s]
  /\ UNCHANGED <<common, pc, instance, prev_instance, arg, lastSet, wrote,
                 vars1, vars2, vars3, vars4, vars5>>

\* drop(instance2), or the guard going out of scope: the mutex is unlocked.
S2_Drop(t) ==
  /\ Call(t, "B")
  /\ instance[t]["B"] # Null
  /\ instance' = [instance EXCEPT ![t]["B"] = Null]
  /\ prev_instance' = [prev_instance EXCEPT ![t]["B"] = instance[t]["B"]]
  /\ locked2' = FALSE
  /\ UNCHANGED <<common, pc, locals, lazy2, data2, poisoned2, inits2, lastAcq2,
                 vars1, vars3, vars4, vars5>>

\* The thread panics while it holds the guard: unwinding drops the guard,
\* which unlocks the mutex and poisons it.
S2_PanicHolding(t) ==
  /\ Call(t, "B")
  /\ instance[t]["B"] # Null
  /\ instance' = [instance EXCEPT ![t]["B"] = Null]
  /\ locked2' = FALSE
  /\ poisoned2' = TRUE
  /\ pc' = [pc EXCEPT ![t] = "unwound"]
  /\ UNCHANGED <<common, prev_instance, locals, lazy2, data2, inits2, lastAcq2,
                 vars1, vars3, vars4, vars5>>

Singleton2Next(t) ==
  \/ S2_GetInstance(t)
  \/ S2_Once(t)
  \/ S2_LazyInit(t)
  \/ S2_LazyComplete(t)
  \/ S2_Lock(t)
  \/ S2_SetData(t)
  \/ S2_SetDataWrite(t)
  \/ S2_GetData(t)
  \/ S2_Drop(t)
  \/ S2_PanicHolding(t)

(***************************************************************************)
(* Singleton3: OnceLock                                                    *)
(***************************************************************************)

\* get_or_init's fast path: the cell is initialised, return it; otherwise
\* go through the Once.
S3_GetInstance(t) ==
  /\ Call(t, "C")
  /\ IF once3 = "complete"
       THEN Return(t, "C", StaticAddr)
       ELSE /\ pc' = [pc EXCEPT ![t] = "s3_once"]
            /\ UNCHANGED <<instance, prev_instance, wrote, got>>
  /\ UNCHANGED <<common, arg, lastSet, vars1, vars2, vars3, vars4, vars5>>

\* S3_Once without the wait: a caller that finds the initialiser running
\* runs the initialiser too.
S3_Once_NoWait(t) ==
  /\ pc[t] = "s3_once"
  /\ \/ /\ once3 # "complete"
        /\ once3' = "running"
        /\ pc' = [pc EXCEPT ![t] = "s3_init"]
     \/ /\ once3 = "complete"
        /\ pc' = [pc EXCEPT ![t] = "s3_ret"]
        /\ UNCHANGED once3
  /\ UNCHANGED <<common, instance, prev_instance, locals, started,
                 data3, inits3, vars1, vars2, vars4, vars5>>

\* The Once: the first caller becomes the initialiser, callers arriving
\* while it runs block, callers arriving after completion pass.
S3_Once(t) ==
  /\ pc[t] = "s3_once"
  /\ \/ /\ once3 = "incomplete"
        /\ once3' = "running"
        /\ pc' = [pc EXCEPT ![t] = "s3_init"]
     \/ /\ once3 = "complete"
        /\ pc' = [pc EXCEPT ![t] = "s3_ret"]
        /\ UNCHANGED once3
  /\ UNCHANGED <<common, instance, prev_instance, locals, started,
                 data3, inits3, vars1, vars2, vars4, vars5>>

\* The initialiser closure runs and its value is written to the slot.
S3_Closure(t) ==
  /\ pc[t] = "s3_init"
  /\ inits3' = inits3 + 1
  /\ data3' = Default3
  /\ pc' = [pc EXCEPT ![t] = "s3_done"]
  /\ UNCHANGED <<common, instance, prev_instance, locals, started,
                 once3, vars1, vars2, vars4, vars5>>

\* The Once completes and wakes the waiters.
S3_Complete(t) ==
  /\ pc[t] = "s3_done"
  /\ once3' = "complete"
  /\ pc' = [pc EXCEPT ![t] = "s3_ret"]
  /\ UNCHANGED <<common, instance, prev_instance, locals, started,
                 data3, inits3, vars1, vars2, vars4, vars5>>

\* get_or_init returns the reference to the slot.
S3_Return(t) ==
  /\ pc[t] = "s3_ret"
  /\ Return(t, "C", StaticAddr)
  /\ UNCHANGED <<common, arg, lastSet, started, vars1, vars2, vars3, vars4, vars5>>

\* Singleton3::get_data
S3_GetData(t) ==
  /\ Call(t, "C")
  /\ instance[t]["C"] # Null
  /\ got' = [got EXCEPT ![t] = data3]
  /\ UNCHANGED <<common, pc, instance, prev_instance, arg, lastSet, wrote,
                 vars1, vars2, vars3, vars4, vars5>>

Singleton3Next(t) ==
  \/ S3_GetInstance(t)
  \/ S3_Once(t)
  \/ S3_Closure(t)
  \/ S3_Complete(t)
  \/ S3_Return(t)
  \/ S3_GetData(t)

(***************************************************************************)
(* Singleton4: eager static                                                *)
(***************************************************************************)

\* Singleton4::get_instance
S4_GetInstance(t) ==
  /\ Call(t, "D")
  /\ Return(t, "D", StaticAddr)
  /\ UNCHANGED <<common, arg, lastSet, vars1, vars2, vars3, vars4, vars5>>

\* S4_Init storing its argument in the record.
S4_Init_Stores(t) ==
  /\ Call(t, "D")
  /\ \E s \in Args(t) :
       /\ arg' = [arg EXCEPT ![t] = s]
       /\ data4' = s
  /\ Return(t, "D", StaticAddr)
  /\ UNCHANGED <<common, lastSet, vars1, vars2, vars3, vars5>>

\* Singleton4::init(data): the argument is discarded.
S4_Init(t) ==
  /\ Call(t, "D")
  /\ \E s \in Args(t) : arg' = [arg EXCEPT ![t] = s]
  /\ Return(t, "D", StaticAddr)
  /\ UNCHANGED <<common, lastSet, vars1, vars2, vars3, vars4, vars5>>

\* Singleton4::get_data
S4_GetData(t) ==
  /\ Call(t, "D")
  /\ instance[t]["D"] # Null
  /\ got' = [got EXCEPT ![t] = data4]
  /\ UNCHANGED <<common, pc, instance, prev_instance, arg, lastSet, wrote,
                 vars1, vars2, vars3, vars4, vars5>>

Singleton4Next(t) ==
  \/ S4_GetInstance(t)
  \/ S4_Init(t)
  \/ S4_GetData(t)

(***************************************************************************)
(* Singleton5: std::sync::Once and a raw pointer                           *)
(***************************************************************************)

\* S5_GetInstance without the Once: every call runs the closure.
S5_GetInstance_NoOnce(t) ==
  /\ Call(t, "E")
  /\ pc' = [pc EXCEPT ![t] = "s5_init"]
  /\ UNCHANGED <<common, instance, prev_instance, locals,
                 vars1, vars2, vars3, vars4, vars5>>

\* ONCE.call_once(..): the fast path when the Once is complete.
S5_GetInstance(t) ==
  /\ Call(t, "E")
  /\ pc' = [pc EXCEPT ![t] = IF ONCE = "complete" THEN "s5_deref" ELSE "s5_once"]
  /\ UNCHANGED <<common, instance, prev_instance, locals,
                 vars1, vars2, vars3, vars4, vars5>>

\* S5_Once without the wait: a caller that finds the closure running passes
\* on as if it had completed.
S5_Once_NoWait(t) ==
  /\ pc[t] = "s5_once"
  /\ \/ /\ ONCE = "incomplete"
        /\ ONCE' = "running"
        /\ pc' = [pc EXCEPT ![t] = "s5_init"]
     \/ /\ ONCE # "incomplete"
        /\ pc' = [pc EXCEPT ![t] = "s5_deref"]
        /\ UNCHANGED ONCE
  /\ UNCHANGED <<common, instance, prev_instance, locals, started,
                 INSTANCE5, heap5, inits5, dropped5,
                 vars1, vars2, vars3, vars4>>

\* ONCE.call_once(..): the first caller runs the closure, callers arriving
\* while it runs block until it has completed.
S5_Once(t) ==
  /\ pc[t] = "s5_once"
  /\ \/ /\ ONCE = "incomplete"
        /\ ONCE' = "running"
        /\ pc' = [pc EXCEPT ![t] = "s5_init"]
     \/ /\ ONCE = "complete"
        /\ pc' = [pc EXCEPT ![t] = "s5_deref"]
        /\ UNCHANGED ONCE
  /\ UNCHANGED <<common, instance, prev_instance, locals, started,
                 INSTANCE5, heap5, inits5, dropped5,
                 vars1, vars2, vars3, vars4>>

\* The closure: INSTANCE5 = Box::into_raw(Box::new(Singleton5 { .. })).  Which
\* address the allocator returns is immaterial here (no Singleton5 box is ever
\* freed): it hands out the lowest cell that is not live.
S5_Closure(t) ==
  /\ pc[t] = "s5_init"
  /\ \E b \in BoxIds :
       /\ heap5[b].st # "live"
       /\ \A c \in BoxIds : c < b => heap5[c].st = "live"
       /\ heap5' = [heap5 EXCEPT ![b] = [st |-> "live", data |-> Default5]]
       /\ INSTANCE5' = b
  /\ inits5' = inits5 + 1
  /\ pc' = [pc EXCEPT ![t] = "s5_done"]
  /\ UNCHANGED <<common, instance, prev_instance, locals, started,
                 ONCE, dropped5, vars1, vars2, vars3, vars4>>

\* call_once returns in the initialising thread: the Once is complete.
S5_Complete(t) ==
  /\ pc[t] = "s5_done"
  /\ ONCE' = "complete"
  /\ pc' = [pc EXCEPT ![t] = "s5_deref"]
  /\ UNCHANGED <<common, instance, prev_instance, locals, started,
                 INSTANCE5, heap5, inits5, dropped5,
                 vars1, vars2, vars3, vars4>>

\* &mut *INSTANCE5
S5_Deref(t) ==
  /\ pc[t] = "s5_deref"
  /\ Return(t, "E", INSTANCE5)
  /\ UNCHANGED <<common, arg, lastSet, started, vars1, vars2, vars3, vars4, vars5>>

\* Singleton5::set_data, entry: the old String is dropped.
S5_SetData(t) ==
  /\ Call(t, "E")
  /\ instance[t]["E"] # Null
  /\ \E s \in Args(t) : arg' = [arg EXCEPT ![t] = s]
  /\ got' = [got EXCEPT ![t] = NoVal]
  /\ pc' = [pc EXCEPT ![t] = "setE"]
  /\ UNCHANGED <<common, instance, prev_instance, lastSet, wrote,
                 vars1, vars2, vars3, vars4, vars5>>

\* S5_SetDataWrite with the store lost (the new String is dropped).
S5_SetDataWrite_Lost(t) ==
  /\ pc[t] = "setE"
  /\ lastSet' = [lastSet EXCEPT ![t] = arg[t]]
  /\ wrote' = [wrote EXCEPT ![t] = TRUE]
  /\ arg' = [arg EXCEPT ![t] = NoVal]
  /\ lastWriter' = [lastWriter EXCEPT !["E"] = t]
  /\ pc' = [pc EXCEPT ![t] = "idle"]
  /\ UNCHANGED <<focus, instance, prev_instance, got, started, vars5,
                 vars1, vars2, vars3, vars4>>

\* Singleton5::set_data, the store to self.data.
S5_SetDataWrite(t) ==
  /\ pc[t] = "setE"
  /\ \/ /\ \E s \in WriteOutcomes(t, "E", instance[t]["E"]) :
             heap5' = [heap5 EXCEPT ![instance[t]["E"]].data = s]
        /\ lastSet' = [lastSet EXCEPT ![t] = arg[t]]
        /\ wrote' = [wrote EXCEPT ![t] = TRUE]
        /\ arg' = [arg EXCEPT ![t] = NoVal]
        /\ lastWriter' = [lastWriter EXCEPT !["E"] = t]
        /\ pc' = [pc EXCEPT ![t] = "idle"]
        /\ UNCHANGED <<focus, instance, prev_instance, got,
                       ONCE, INSTANCE5, inits5, dropped5,
                       vars1, vars2, vars3, vars4>>
     \/ /\ Racy(t, "E", instance[t]["E"],
                 heap5[instance[t]["E"]].st = "freed")
        /\ ProcessAbort
  /\ UNCHANGED started

\* Singleton5::get_data
S5_GetData(t) ==
  /\ Call(t, "E")
  /\ instance[t]["E"] # Null
  /\ \/ /\ \E s \in ReadOutcomes(t, "E", instance[t]["E"],
                                 heap5[instance[t]["E"]].data,
                                 heap5[instance[t]["E"]].st = "freed") :
             got' = [got EXCEPT ![t] = s]
        /\ UNCHANGED <<common, pc, instance, prev_instance, arg, lastSet,
                       wrote, vars1, vars2, vars3, vars4, vars5>>
     \/ /\ Racy(t, "E", instance[t]["E"],
                 heap5[instance[t]["E"]].st = "freed")
        /\ ProcessAbort

Singleton5Next(t) ==
  \/ S5_GetInstance(t)
  \/ S5_Once(t)
  \/ S5_Closure(t)
  \/ S5_Complete(t)
  \/ S5_Deref(t)
  \/ S5_SetData(t)
  \/ S5_SetDataWrite(t)
  \/ S5_GetData(t)

Next ==
  \E t \in Threads :
    \/ Singleton1Next(t)
    \/ Singleton2Next(t)
    \/ Singleton3Next(t)
    \/ Singleton4Next(t)
    \/ Singleton5Next(t)

Spec == Init /\ [][Next]_vars

\* The variants whose shared state is synchronised or immutable (Singleton2,
\* Singleton3, Singleton4), exercised alone.
InitSync == Init /\ focus \in {{"B"}, {"C"}, {"D"}}

NextSync ==
  \E t \in Threads :
    \/ Singleton2Next(t)
    \/ Singleton3Next(t)
    \/ Singleton4Next(t)

SpecSync == InitSync /\ [][NextSync]_vars

\* Singleton5 exercised alone.
InitOnce == Init /\ focus = {"E"}

NextOnce == \E t \in Threads : Singleton5Next(t)

SpecOnce == InitOnce /\ [][NextOnce]_vars

(***************************************************************************)
(* tests::test_thread_safety: every spawned thread takes Singleton2's      *)
(* guard, sets and reads its data and drops the guard, then calls          *)
(* Singleton5's get_instance(), set_data() and get_data().  A thread's     *)
(* position in the closure is read off what it holds and has done.         *)
(***************************************************************************)

InitTest ==
  /\ focus = {"B", "E"}
  /\ InitState

\* Singleton2::get_instance() .. drop(instance2)
TestSingleton2(t) ==
  \/ /\ instance[t]["B"] = Null
     /\ prev_instance[t]["B"] = Null
     /\ S2_GetInstance(t)
  \/ S2_Once(t)
  \/ S2_LazyInit(t)
  \/ S2_LazyComplete(t)
  \/ S2_Lock(t)
  \/ /\ ~wrote[t]
     /\ S2_SetData(t)
     /\ arg'[t] = ThreadData(t)
  \/ S2_SetDataWrite(t)
  \/ /\ wrote[t]
     /\ got[t] = NoVal
     /\ S2_GetData(t)
  \/ /\ wrote[t]
     /\ got[t] # NoVal
     /\ S2_Drop(t)

\* Singleton5::get_instance() .. instance5.get_data()
TestSingleton5(t) ==
  \/ /\ instance[t]["B"] = Null
     /\ prev_instance[t]["B"] # Null
     /\ instance[t]["E"] = Null
     /\ S5_GetInstance(t)
  \/ S5_Once(t)
  \/ S5_Closure(t)
  \/ S5_Complete(t)
  \/ S5_Deref(t)
  \/ /\ ~wrote[t]
     /\ S5_SetData(t)
     /\ arg'[t] = ThreadData(t)
  \/ S5_SetDataWrite(t)
  \/ /\ wrote[t]
     /\ got[t] = NoVal
     /\ S5_GetData(t)

\* The closure given to thread::spawn.
TestThread(t) == TestSingleton2(t) \/ TestSingleton5(t)

\* The closure has returned: handle.join() on this thread completes.
TestFinished(t) ==
  /\ pc[t] = "idle"
  /\ instance[t]["E"] # Null
  /\ wrote[t]
  /\ got[t] # NoVal

NextTest == \E t \in Threads : TestThread(t)

\* The operating system schedules every thread that can run.
SpecTest ==
  /\ InitTest
  /\ [][NextTest]_vars
  /\ \A t \in Threads : WF_vars(TestThread(t))

(***************************************************************************)
(* Claims                                                                  *)
(***************************************************************************)

\* The threads that hold a result of variant v's get_instance().
Holders(v) == {t \in Threads : instance[t][v] # Null}

\* C1: Singleton3, under every interleaving of the threads' get_instance()
\* calls: the initialiser closure runs at most once, and exactly once as soon
\* as any call is past the Once; every returned reference is the one static
\* slot; no call returns before the Once is complete and the slot holds
\* "Singleton3 instance", and every get_data() returns that value.
C1_Singleton3ExactlyOnce ==
  "C" \in focus =>
    /\ inits3 <= 1
    /\ \A t \in Threads :
         /\ pc[t] = "s3_ret" => inits3 = 1 /\ once3 = "complete" /\ data3 = Default3
         /\ instance[t]["C"] # Null =>
              /\ inits3 = 1
              /\ once3 = "complete"
              /\ data3 = Default3
              /\ \A u \in Holders("C") : instance[u]["C"] = instance[t]["C"]
         /\ got[t] \in {NoVal, Default3}

\* C1 witness: the threads called get_instance() concurrently for the first
\* time (one is still on the Once's slow path after another has returned and
\* read the data).
C1_Witness ==
  /\ "C" \in focus
  /\ inits3 = 1
  /\ \E t, u \in Threads :
       /\ t # u
       /\ instance[t]["C"] # Null
       /\ got[t] = Default3
       /\ pc[u] = "s3_ret"

\* C2: Singleton5, under every interleaving: the call_once closure runs at
\* most once; a caller is past call_once (about to dereference INSTANCE5) only
\* when the Once is complete, the closure has run exactly once and INSTANCE5
\* points to the live constructed record; every reference held is that same
\* record.
C2_Singleton5ExactlyOnce ==
  "E" \in focus =>
    /\ inits5 <= 1
    /\ \A t \in Threads :
         /\ pc[t] = "s5_deref" =>
              /\ ONCE = "complete"
              /\ inits5 = 1
              /\ INSTANCE5 # Null
              /\ heap5[INSTANCE5].st = "live"
         /\ instance[t]["E"] # Null =>
              /\ instance[t]["E"] = INSTANCE5
              /\ heap5[instance[t]["E"]].st = "live"

\* C2 witness: one thread constructed and returned, another one that called
\* concurrently (it took the Once's slow path) is about to dereference.
C2_Witness ==
  /\ "E" \in focus
  /\ \A t \in Threads : t \in started
  /\ \E t, u \in Threads :
       /\ t # u
       /\ instance[t]["E"] # Null
       /\ pc[u] = "s5_deref"
       /\ instance[u]["E"] = Null

\* C3: Singleton2, in every reachable state: at most one thread holds a
\* guard, a held guard means the mutex is locked and the static is
\* initialised, and a thread in the middle of set_data() is the guard's
\* holder, so no other thread reads or writes data meanwhile.
C3_Singleton2MutualExclusion ==
  "B" \in focus =>
    /\ Cardinality(Holders("B")) <= 1
    /\ Holders("B") # {} => locked2 /\ lazy2 = "complete"
    /\ \A t \in Threads : pc[t] = "setB" => Holders("B") = {t}

\* C3 witness: a thread holds the guard in the middle of set_data() while
\* another thread's get_instance() waits for the mutex.
C3_Witness ==
  /\ "B" \in focus
  /\ \E t, u \in Threads :
       /\ t # u
       /\ pc[t] = "setB"
       /\ pc[u] = "s2_lock"

\* C4: Singleton2 with concurrent writers: a thread that has called
\* set_data(v) and then get_data() through the guard it holds read exactly v;
\* every value read is the default or the whole argument of some set_data();
\* once the guard is free, if the thread that acquired it last wrote through
\* it, data is that thread's value.
C4_Singleton2Writers ==
  "B" \in focus =>
    \A t \in Threads :
      /\ (instance[t]["B"] # Null /\ wrote[t] /\ got[t] # NoVal) => got[t] = lastSet[t]
      /\ got[t] \in {NoVal, Default2} \cup UNION {Args(u) : u \in Threads}
      /\ (~locked2 /\ lastAcq2 = t /\ wrote[t]) => data2 = lastSet[t]

\* C4 witness: every thread has acquired the guard and written its own
\* value, the last one has read it back and released the guard.
C4_Witness ==
  /\ "B" \in focus
  /\ ~locked2
  /\ \A t \in Threads : lastSet[t] = ThreadData(t) /\ pc[t] = "idle"
  /\ \E t \in Threads :
       /\ lastAcq2 = t
       /\ wrote[t]
       /\ got[t] = ThreadData(t)
       /\ data2 = ThreadData(t)

\* C5: Singleton1 under concurrent first access: the record can be
\* constructed more than once (see the witness), but no thread constructs it
\* twice; a thread's reference is stale or dangling (not the record INSTANCE1
\* holds, or freed), and a record is freed at all, only after a second
\* construction.
C5_Singleton1Race ==
  "A" \in focus =>
    /\ inits1 <= NumThreads
    /\ \A b \in BoxIds : heap1[b].st = "freed" => inits1 >= 2
    /\ \A t \in Threads :
         (/\ instance[t]["A"] # Null
          /\ (instance[t]["A"] # INSTANCE1 \/ heap1[instance[t]["A"]].st # "live"))
           => inits1 >= 2

\* C5 witness: both threads passed is_none(), the record was constructed
\* twice, the second construction freed the record a thread held; that thread
\* had called set_data() through it, then called get_instance() again and read
\* the default: its update is lost.
C5_Witness ==
  /\ "A" \in focus
  /\ inits1 = 2
  /\ \E t \in Threads :
       /\ prev_instance[t]["A"] # Null
       /\ heap1[prev_instance[t]["A"]].st = "freed"
       /\ instance[t]["A"] = INSTANCE1
       /\ instance[t]["A"] # prev_instance[t]["A"]
       /\ lastSet[t] = ThreadData(t)
       /\ got[t] = Default1

\* The data of variant v's record at reference r.
Data(v, r) ==
  CASE v = "A" -> heap1[r].data
    [] v = "B" -> data2
    [] v = "C" -> data3
    [] v = "D" -> data4
    [] v = "E" -> heap5[r].data

\* The record at reference r of variant v is allocated.
Live(v, r) ==
  CASE v = "A" -> heap1[r].st = "live"
    [] v = "E" -> heap5[r].st = "live"
    [] OTHER -> TRUE

\* Times variant v's record has been constructed.
Inits(v) ==
  CASE v = "A" -> inits1
    [] v = "B" -> inits2
    [] v = "C" -> inits3
    [] v = "D" -> 1
    [] v = "E" -> inits5

\* C6 as stated: for every variant, two consecutive get_instance() calls of a
\* thread both return (the second is never stuck behind the caller's own
\* first result) and return the same storage.
C6_IdentityOriginal ==
  \A v \in focus : \A t \in Threads :
    /\ (prev_instance[t][v] # Null /\ instance[t][v] # Null)
         => instance[t][v] = prev_instance[t][v]
    /\ ~(v = "B" /\ pc[t] = "s2_lock" /\ instance[t]["B"] # Null)

\* C6 amended: two consecutive get_instance() calls of a thread that both
\* returned (for Singleton2 the first guard was released before the second
\* call; for Singleton1 the record was constructed once) returned the same
\* live storage, and when that thread's set_data() was the last to store and
\* no write is under way the storage holds the value it set.
C6_Identity ==
  \A v \in focus : \A t \in Threads :
    (prev_instance[t][v] # Null /\ instance[t][v] # Null /\ (v = "A" => inits1 <= 1)) =>
      /\ instance[t][v] = prev_instance[t][v]
      /\ Live(v, instance[t][v])
      /\ (lastWriter[v] = t /\ pc[t] = "idle" /\ Writers(t, v, instance[t][v]) = {})
           => Data(v, instance[t][v]) = lastSet[t]

\* C6 witness: a thread of Singleton5 wrote through its first reference,
\* called get_instance() again and read its value through the second.
C6_Witness ==
  /\ "E" \in focus
  /\ \E t \in Threads :
       /\ prev_instance[t]["E"] # Null
       /\ instance[t]["E"] = prev_instance[t]["E"]
       /\ ~wrote[t]
       /\ lastWriter["E"] = t
       /\ got[t] = lastSet[t]

\* C7: sequential use of Singleton1, Singleton2 and Singleton5 (one thread
\* makes all the calls): get_data() returns the argument of the most recent
\* set_data(), or the default if there was none; the record the thread's
\* reference gives holds that value between calls; construction never runs a
\* second time.
C7_SequentialVisibility ==
  \A v \in focus \cap {"A", "B", "E"} : \A t \in Threads :
    started \subseteq {t} =>
      /\ got[t] # NoVal =>
           got[t] = IF lastSet[t] = NoVal THEN Default(v) ELSE lastSet[t]
      /\ (instance[t][v] # Null /\ pc[t] = "idle") =>
           Data(v, instance[t][v]) = IF lastSet[t] = NoVal THEN Default(v) ELSE lastSet[t]
      /\ Inits(v) <= 1

\* C7 witness: a single thread of Singleton1 set data, called get_instance()
\* again and read the value it had set.
C7_Witness ==
  /\ "A" \in focus
  /\ \E t \in Threads :
       /\ started = {t}
       /\ prev_instance[t]["A"] # Null
       /\ ~wrote[t]
       /\ lastSet[t] = "Updated data"
       /\ got[t] = "Updated data"

\* No set_data() on variant v has been called.
NoSetYet(v) ==
  /\ lastWriter[v] = Null
  /\ \A u \in Threads : pc[u] \notin {"set" \o v, "aborted"}

C9_Immutability ==
  /\ "C" \in focus =>
       /\ once3 = "complete" => data3 = Default3
       /\ inits3 >= 1 => data3 = Default3
       /\ \A t \in Threads : got[t] \in {NoVal, Default3}
  /\ data4 = ""
  /\ "D" \in focus =>
       \A t \in Threads :
         /\ got[t] \in {NoVal, ""}
         /\ instance[t]["D"] \in {Null, StaticAddr}
         /\ prev_instance[t]["D"] \in {Null, instance[t]["D"]}

\* C9 witness: a thread called Singleton4::init(s), then get_data() through
\* the reference init returned, and read "".
C9_Witness ==
  /\ "D" \in focus
  /\ \E t \in Threads :
       /\ arg[t] = "Updated data"
       /\ instance[t]["D"] = StaticAddr
       /\ got[t] = ""

\* C10: Singleton2: a get_instance() that waits for the mutex proceeds only
\* in a state where no guard is held, and no thread obtains a guard in a step
\* over which another thread keeps holding one: while a holder never releases,
\* every other caller stays blocked.
C10_Singleton2Blocking ==
  [][\A t \in Threads :
       /\ (pc[t] = "s2_lock" /\ pc'[t] # "s2_lock")
            => (~locked2 /\ Holders("B") = {})
       /\ (instance[t]["B"] = Null /\ instance'[t]["B"] # Null)
            => \A h \in Threads \ {t} :
                 ~(instance[h]["B"] # Null /\ instance'[h]["B"] # Null)]_vars

\* C10 witness: a thread obtained the guard after having waited while
\* another thread held it (that thread has since released it), and now the
\* roles are swapped: the other thread waits.
C10_Witness ==
  /\ "B" \in focus
  /\ \E h, t \in Threads :
       /\ h # t
       /\ instance[h]["B"] # Null
       /\ lastAcq2 = h
       /\ prev_instance[t]["B"] # Null
       /\ pc[t] = "s2_lock"

\* C11: Singleton5's set_data() and get_data() are not mutually exclusive once
\* the instance exists.  A thread that has set a value and then reads a
\* different one through the same reference has been overtaken: another
\* thread stored to the record after it, or is inside set_data() on the same
\* record at that moment.  The witness is the interleaving in which the
\* other thread's set_data() falls between the two calls.
C11_Singleton5Unsynchronized ==
  \A t \in Threads :
    ( /\ pc[t] = "idle"
      /\ instance[t]["E"] # Null
      /\ wrote[t]
      /\ got[t] \notin {NoVal, lastSet[t]} )
    => \/ lastWriter["E"] # t
       \/ Writers(t, "E", instance[t]["E"]) # {}

C11_Witness ==
  \E t \in Threads : \E u \in Threads \ {t} :
    /\ pc[t] = "idle"
    /\ pc[u] = "idle"
    /\ instance[t]["E"] # Null
    /\ instance[u]["E"] = instance[t]["E"]
    /\ wrote[t]
    /\ lastSet[t] = ThreadData(t)
    /\ lastSet[u] = ThreadData(u)
    /\ lastWriter["E"] = u
    /\ got[t] = ThreadData(u)

\* C12: no call ends abnormally; in particular no thread's
\* Singleton2::get_instance() panics, whatever happened to earlier holders of
\* the guard.
C12_NoAbnormalTermination ==
  \A t \in Threads : pc[t] # "panicked"

\* C13: Singleton2 under concurrent first access: the record is constructed
\* at most once; whenever a thread is at the lock, holds the guard or has
\* held it, construction has completed, exactly once; and what a guard
\* holder reads before any set_data() is "Singleton2 instance".
C13_Singleton2Initialization ==
  /\ inits2 <= 1
  /\ \A t \in Threads :
       (pc[t] \in {"s2_lock", "setB"} \/ instance[t]["B"] # Null \/ lastAcq2 # Null)
         => (lazy2 = "complete" /\ inits2 = 1 /\ data2 # NoVal)
  /\ \A t \in Threads :
       ("B" \in focus /\ lastWriter["B"] = Null /\ instance[t]["B"] # Null)
         => (data2 = Default2 /\ got[t] \in {NoVal, Default2})

C13_Witness ==
  \E t \in Threads : \E u \in Threads \ {t} :
    /\ started = Threads
    /\ lastAcq2 = t
    /\ instance[t]["B"] # Null
    /\ instance[u]["B"] = Null
    /\ prev_instance[u]["B"] = Null
    /\ pc[u] = "s2_lock"
    /\ lastWriter["B"] = Null
    /\ got[t] = Default2
    /\ inits2 = 1

\* C14: in tests::test_thread_safety every spawned thread finishes: a state
\* in which some thread has not returned from its closure has a step to
\* take, so that under fair scheduling all the joins complete.
C14_Termination ==
  (\A t \in Threads : TestFinished(t)) \/ ENABLED NextTest

\* C15: Singleton5's instance, once constructed, is never destroyed or
\* reallocated: no step changes INSTANCE5 once it is set, frees a live box
\* or runs Drop, and every reference get_instance() has returned, the
\* current and the previous one, is INSTANCE5 and points at live storage.
C15_Singleton5Lifetime ==
  [][ /\ dropped5' = 0
      /\ INSTANCE5 # Null => INSTANCE5' = INSTANCE5
      /\ \A b \in BoxIds : heap5[b].st = "live" => heap5'[b].st = "live"
      /\ \A t \in Threads :
           \A r \in {instance'[t]["E"], prev_instance'[t]["E"]} \ {Null} :
             r = INSTANCE5' /\ heap5'[r].st = "live" ]_vars

C15_Witness ==
  \E t \in Threads : \E u \in Threads \ {t} :
    /\ instance[t]["E"] # Null
    /\ prev_instance[t]["E"] = instance[t]["E"]
    /\ instance[u]["E"] = instance[t]["E"]
    /\ lastWriter["E"] = u
    /\ wrote[t]
    /\ got[t] # NoVal
    /\ heap5[instance[t]["E"]].st = "live"
    /\ dropped5 = 0

====
